---- MODULE Spec2Model ----
(***************************************************************************)
(* Model of the avalanche-canada-data-analysis repository:                 *)
(*   - scripts/helper.py scrape(): the page-scraping loop,                  *)
(*   - scripts/scrape_export_data.py: the month-filtered date range,        *)
(*   - notebooks/2020_10_10_dh_clean_explore_data.py: the "Clean Dataset"   *)
(*     cell and the "Danger Rating Forecast Anomaly" cell.                  *)
(*                                                                         *)
(* Dates are day ordinals of a non-leap year (1 = January 1st); a date      *)
(* plus one day is the ordinal plus one.  A text is a sequence of atoms:    *)
(* digit characters, words, and the three-character separator " - ".        *)
(***************************************************************************)
EXTENDS Integers, Sequences, FiniteSets, TLC

VARIABLES
    \* ---- scrape() ----
    pc,                         \* position of the scrape run
    dates,                      \* the date sequence passed to scrape
    k,                          \* number of dates the for loop has finished
    page,                       \* the page currently loaded in the browser
    driver,                     \* "none" | "open" | "quit"
    launched,                   \* number of browser processes started
    queried,                    \* log of the find_elements rounds
    current_conditions,
    current_plus_1_conditions,
    current_plus_2_conditions,
    problem_conditions,
    returned,                   \* <<>> or the returned 4-tuple
    \* ---- notebook ----
    nbpc,                       \* position in the notebook
    csv_files,                  \* the three raw tables as read from disk
    df_raw_current,
    df_raw_current_plus1,
    df_raw_current_plus2,
    df_now_plus1,
    df_now_plus2,
    anomaly                     \* the six 5x5 anomaly matrices

scrapeVars == <<pc, dates, k, page, driver, launched, queried,
                current_conditions, current_plus_1_conditions,
                current_plus_2_conditions, problem_conditions, returned>>
nbVars == <<nbpc, csv_files, df_raw_current, df_raw_current_plus1,
            df_raw_current_plus2, df_now_plus1, df_now_plus2, anomaly>>
vars == <<scrapeVars, nbVars>>

(***************************************************************************)
(* Bounds of the model.                                                    *)
(***************************************************************************)
MaxDates == 2       \* longest date sequence passed to scrape
MaxRot == 1         \* page families: rotations of the rating levels
NFree == 1          \* notebook input: dates whose rows vary freely

(***************************************************************************)
(* Calendar and the export script's date range.                            *)
(***************************************************************************)
MonthLengths == <<31, 28, 31, 30, 31, 30, 31, 31, 30, 31, 30, 31>>

RECURSIVE DaysBefore(_)
DaysBefore(m) == IF m = 1 THEN 0 ELSE DaysBefore(m - 1) + MonthLengths[m - 1]

MonthOf(d) == CHOOSE m \in 1..12 : DaysBefore(m) < d /\ d <= DaysBefore(m) + MonthLengths[m]

months_to_scrape == {1, 2, 3, 4, 11, 12}

SeasonEnd == DaysBefore(5)            \* April 30
SeasonStart == DaysBefore(11) + 1     \* November 1

date_range(start, end) == [n \in 1..(IF end >= start THEN end - start + 1 ELSE 0) |-> start + n - 1]

InSeason(d) == MonthOf(d) \in months_to_scrape

dates_to_scrape(start, end) == SelectSeq(date_range(start, end), InSeason)

\* the dates of the model: the last day of the spring season, the day after
\* it (out of season) and the first day of the autumn season
Days == {SeasonEnd, SeasonEnd + 1, SeasonStart}

RECURSIVE SeqsUpTo(_)
SeqsUpTo(n) == IF n = 0 THEN {<<>>}
               ELSE SeqsUpTo(n - 1) \cup
                    {Append(s, d) : s \in {t \in SeqsUpTo(n - 1) : Len(t) = n - 1}, d \in Days}

Ordered(s) == \A n \in 1..(Len(s) - 1) : s[n] < s[n + 1]

\* every date sequence scrape is started with: any ordered sequence (the test
\* passes a literal list) and the export script's month-filtered ranges
DateSeqs == {s \in SeqsUpTo(MaxDates) : Ordered(s)}
              \cup {s \in {dates_to_scrape(a, b) : a \in Days, b \in Days} : Len(s) <= MaxDates}

(***************************************************************************)
(* Texts: str.split(' - ') and int().                                      *)
(***************************************************************************)
SEP == " - "
DigitChars == <<"0", "1", "2", "3", "4", "5", "6", "7", "8", "9">>
IsDigit(c) == \E n \in 1..Len(DigitChars) : DigitChars[n] = c
DigitVal(c) == (CHOOSE n \in 1..Len(DigitChars) : DigitChars[n] = c) - 1

\* str.split(' - '): the parts between the separators, at least one part
RECURSIVE split(_)
split(text) ==
    IF \A n \in 1..Len(text) : text[n] # SEP THEN <<text>>
    ELSE LET n == CHOOSE n \in 1..Len(text) :
                      text[n] = SEP /\ \A m \in 1..(n - 1) : text[m] # SEP
         IN  <<SubSeq(text, 1, n - 1)>> \o split(SubSeq(text, n + 1, Len(text)))

\* int(s) raises ValueError unless s is a non-empty run of digits
IsIntLiteral(part) == Len(part) > 0 /\ \A n \in 1..Len(part) : IsDigit(part[n])

RECURSIVE int(_)
int(part) == IF Len(part) = 0 THEN 0
             ELSE 10 * int(SubSeq(part, 1, Len(part) - 1)) + DigitVal(part[Len(part)])

\* x.split(' - ')[-1]
status_first(text) == split(text)[1]
status(text) == split(text)[Len(split(text))]

\* int(x.split(' - ')[0]): the value, or the ValueError
status_code_lenient(text) ==
    LET part == split(text)[1]
    IN  IF IsIntLiteral(part) THEN [ok |-> TRUE, val |-> int(part)]
        ELSE [ok |-> TRUE, val |-> 0]
status_code(text) ==
    LET part == split(text)[1]
    IN  IF IsIntLiteral(part) THEN [ok |-> TRUE, val |-> int(part)]
        ELSE [ok |-> FALSE, val |-> 0]

\* pd.to_datetime(date) + pd.Timedelta('n days'), formatted back
date_plus_one_only(date, n) == date + 1
date_plus(date, n) == date + n

(***************************************************************************)
(* One appended row: [date, label, code, label, code, label, code].        *)
(* The list display is evaluated left to right; the first element that     *)
(* cannot be evaluated decides the exception.                              *)
(***************************************************************************)
RowError(list, idx) ==
    LET bad(p) == idx[p] > Len(list) \/ ~status_code(list[idx[p]]).ok
    IN  IF \A p \in 1..3 : ~bad(p) THEN "none"
        ELSE LET p == CHOOSE p \in 1..3 : bad(p) /\ \A q \in 1..(p - 1) : ~bad(q)
             IN  IF idx[p] > Len(list) THEN "IndexError" ELSE "ValueError"

Row_swapped(date, list, idx) ==
    <<date, status(list[idx[2]]), status_code(list[idx[2]]).val,
            status(list[idx[1]]), status_code(list[idx[1]]).val,
            status(list[idx[3]]), status_code(list[idx[3]]).val>>
Row(date, list, idx) ==
    <<date, status(list[idx[1]]), status_code(list[idx[1]]).val,
            status(list[idx[2]]), status_code(list[idx[2]]).val,
            status(list[idx[3]]), status_code(list[idx[3]]).val>>

(***************************************************************************)
(* The archive page: what the five element locators return.  The content   *)
(* of a page is outside the program, so every load draws it from Pages.    *)
(***************************************************************************)
Labels == <<"Low", "Moderate", "Considerable", "High", "Extreme">>

\* the text the archive shows for level n, e.g. "1 - Low"
Rating(n) == <<DigitChars[n + 1], SEP, Labels[n]>>

\* text at position p (0..8: alpine, treeline, below-treeline, forecast 0..5)
PosText(r, p) == Rating(((p + r) % 5) + 1)

\* the problem block: present on the even rotations, absent on the odd ones
ProblemsOf(r) == IF r % 2 = 0 THEN <<"Storm Slabs">> ELSE <<>>

GoodPage(d, r, probs) ==
    [url |-> d,
     alpine |-> <<PosText(r, 0)>>,
     treeline |-> <<PosText(r, 1)>>,
     belowtree |-> <<PosText(r, 2)>>,
     forecast |-> [n \in 1..6 |-> PosText(r, n + 2)],
     problem |-> probs]

\* the positions an odd text is placed at: one in each appended row
OddPositions == {1, 4, 9}

\* texts that are not of the shape "<integer 1-5> - <label>", each placed
\* at a position (1..9) of an otherwise regular page
OddTexts == { <<>>,                                  \* ""
              <<"Low">>,                             \* "Low"
              <<"Low", SEP, "1">> }                  \* "Low - 1"
OddPlacements ==
    {<<p, t>> : p \in OddPositions, t \in OddTexts}
    \cup {<<1, <<"3">>>>,                                   \* "3"
          <<9, <<"2", SEP, "Moderate", SEP, "x">>>>,        \* "2 - Moderate - x"
          <<1, <<"7", SEP, "Low">>>>,                       \* "7 - Low"
          <<9, <<"1", "2", SEP, "High">>>>}                 \* "12 - High"

\* the page with the text at position p (1..9) replaced by t
WithText(pg, p, t) ==
    CASE p = 1 -> [pg EXCEPT !.alpine = <<t>>]
      [] p = 2 -> [pg EXCEPT !.treeline = <<t>>]
      [] p = 3 -> [pg EXCEPT !.belowtree = <<t>>]
      [] OTHER -> [pg EXCEPT !.forecast[p - 3] = t]

Pages(d) ==
    \* every element present and well formed
    {GoodPage(d, r, ProblemsOf(r)) : r \in 0..MaxRot}
    \* one locator, or every locator, finds nothing
    \cup {[GoodPage(d, 0, <<"Storm Slabs">>) EXCEPT !.alpine = <<>>],
          [GoodPage(d, 0, <<"Storm Slabs">>) EXCEPT !.treeline = <<>>],
          [GoodPage(d, 0, <<"Storm Slabs">>) EXCEPT !.belowtree = <<>>],
          [GoodPage(d, 0, <<"Storm Slabs">>) EXCEPT !.forecast = <<>>],
          [url |-> d, alpine |-> <<>>, treeline |-> <<>>, belowtree |-> <<>>,
           forecast |-> <<>>, problem |-> <<>>]}
    \* one text of an unexpected shape
    \cup {WithText(GoodPage(d, 0, <<>>), pt[1], pt[2]) : pt \in OddPlacements}
    \* a forecast block with fewer than six values
    \cup {[GoodPage(d, 0, <<>>) EXCEPT !.forecast = [n \in 1..len |-> PosText(0, n + 2)]]
              : len \in 1..5}
    \* every value Low, the page of the repository's test
    \cup {[GoodPage(d, 0, <<>>) EXCEPT !.alpine = <<Rating(1)>>,
                                       !.treeline = <<Rating(1)>>,
                                       !.belowtree = <<Rating(1)>>,
                                       !.forecast = [n \in 1..6 |-> Rating(1)]]}
    \* a short forecast block holding an odd text, and an odd seventh value
    \cup {[GoodPage(d, 0, <<>>) EXCEPT !.forecast = <<PosText(0, 3), <<"Low">>>>],
          [GoodPage(d, 0, <<>>) EXCEPT !.forecast =
               [n \in 1..7 |-> IF n = 7 THEN <<"Low">> ELSE PosText(0, n + 2)]]}
    \* locators matching more than one element
    \cup {[GoodPage(d, 0, <<>>) EXCEPT !.alpine = <<PosText(0, 0), PosText(0, 4)>>,
                                       !.treeline = <<PosText(0, 1), PosText(0, 0)>>,
                                       !.belowtree = <<PosText(0, 2), PosText(0, 1)>>]}

NoPage == [url |-> 0, alpine |-> <<>>, treeline |-> <<>>, belowtree |-> <<>>,
           forecast |-> <<>>, problem |-> <<>>]

(***************************************************************************)
(* scrape(dates, region)                                                   *)
(***************************************************************************)
\* lines 16-25: the lists, webdriver.Firefox(), driver.get(dates[0])
Start ==
    /\ pc = "start"
    /\ current_conditions' = <<>>
    /\ current_plus_1_conditions' = <<>>
    /\ current_plus_2_conditions' = <<>>
    /\ problem_conditions' = <<>>
    /\ driver' = "open"
    /\ launched' = launched + 1
    /\ IF Len(dates) = 0
       THEN pc' = "IndexError" /\ page' = page
       ELSE pc' = "loop" /\ page' \in Pages(dates[1])
    /\ UNCHANGED <<dates, k, queried, returned, nbVars>>

\* the first exception the parse branch raises ("none" when it raises none)
ParseError(pg) ==
    LET today == <<pg.alpine[1], pg.treeline[1], pg.belowtree[1]>>
    IN  IF RowError(today, <<1, 2, 3>>) # "none" THEN RowError(today, <<1, 2, 3>>)
        ELSE IF RowError(pg.forecast, <<1, 2, 3>>) # "none" THEN RowError(pg.forecast, <<1, 2, 3>>)
        ELSE RowError(pg.forecast, <<4, 5, 6>>)

IsMissing_bands_only(pg) ==
    pg.alpine = <<>> \/ pg.treeline = <<>> \/ pg.belowtree = <<>>
IsMissing(pg) ==
    pg.alpine = <<>> \/ pg.treeline = <<>> \/ pg.belowtree = <<>> \/ pg.forecast = <<>>

\* lines 28-80: one pass of the for loop
Iterate ==
    /\ pc = "loop"
    /\ k < Len(dates)
    /\ LET date == dates[k + 1]
           date_plus_1 == date_plus(date, 1)
           date_plus_2 == date_plus(date, 2)
           today == <<page.alpine[1], page.treeline[1], page.belowtree[1]>>
       IN
        /\ queried' = Append(queried, [date |-> date, page |-> page])
        /\ IF IsMissing(page)
           THEN /\ current_conditions' = Append(current_conditions, <<date>>)
                /\ current_plus_1_conditions' = Append(current_plus_1_conditions, <<date_plus_1>>)
                /\ current_plus_2_conditions' = Append(current_plus_2_conditions, <<date_plus_2>>)
                /\ problem_conditions' = Append(problem_conditions, <<>>)
                /\ page' \in Pages(date_plus_1)
                /\ k' = k + 1
                /\ pc' = "loop"
           ELSE IF ParseError(page) = "none"
           THEN /\ current_conditions' =
                       Append(current_conditions, Row(date, today, <<1, 2, 3>>))
                /\ current_plus_1_conditions' =
                       Append(current_plus_1_conditions, Row(date_plus_1, page.forecast, <<1, 2, 3>>))
                /\ current_plus_2_conditions' =
                       Append(current_plus_2_conditions, Row(date_plus_2, page.forecast, <<4, 5, 6>>))
                /\ problem_conditions' = Append(problem_conditions, page.problem)
                /\ page' \in Pages(date_plus_1)
                /\ k' = k + 1
                /\ pc' = "loop"
           ELSE \* the exception leaves the loop; rows appended before it stay
                /\ current_conditions' =
                       IF RowError(today, <<1, 2, 3>>) = "none"
                       THEN Append(current_conditions, Row(date, today, <<1, 2, 3>>))
                       ELSE current_conditions
                /\ current_plus_1_conditions' =
                       IF /\ RowError(today, <<1, 2, 3>>) = "none"
                          /\ RowError(page.forecast, <<1, 2, 3>>) = "none"
                       THEN Append(current_plus_1_conditions,
                                   Row(date_plus_1, page.forecast, <<1, 2, 3>>))
                       ELSE current_plus_1_conditions
                /\ UNCHANGED <<current_plus_2_conditions, problem_conditions, page, k>>
                /\ pc' = ParseError(page)
    /\ UNCHANGED <<dates, driver, launched, returned, nbVars>>

\* lines 82-84: driver.quit() and the return
Return ==
    /\ pc = "loop"
    /\ k = Len(dates)
    /\ driver' = "quit"
    /\ returned' = <<current_conditions, current_plus_1_conditions,
                     current_plus_2_conditions, problem_conditions>>
    /\ pc' = "done"
    /\ UNCHANGED <<dates, k, page, launched, queried, current_conditions,
                   current_plus_1_conditions, current_plus_2_conditions,
                   problem_conditions, nbVars>>

NbIdle ==
    /\ nbpc = "idle"
    /\ csv_files = <<>>
    /\ df_raw_current = <<>>
    /\ df_raw_current_plus1 = <<>>
    /\ df_raw_current_plus2 = <<>>
    /\ df_now_plus1 = <<>>
    /\ df_now_plus2 = <<>>
    /\ anomaly = <<>>

Init ==
    /\ pc = "start"
    /\ dates \in DateSeqs
    /\ k = 0
    /\ page = NoPage
    /\ driver = "none"
    /\ launched = 0
    /\ queried = <<>>
    /\ current_conditions = <<>>
    /\ current_plus_1_conditions = <<>>
    /\ current_plus_2_conditions = <<>>
    /\ problem_conditions = <<>>
    /\ returned = <<>>
    /\ NbIdle

Next == Start \/ Iterate \/ Return

Spec == Init /\ [][Next]_vars

(***************************************************************************)
(* The notebook.  A table is [columns, rows]; a row maps each column to a   *)
(* value.  A missing value is NaN in a numeric column and NoValue in a      *)
(* text column (the two are np.nan in the source).                          *)
(***************************************************************************)
NaN == 0 - 1
NoValue == "NaN"
Levels == 1..5

CodeColumns == {"alpine_status_code", "treeline_status_code", "belowtree_status_code"}
RatingColumns == {"date_valid", "alpine_status", "treeline_status", "belowtree_status"}
                     \cup CodeColumns
CurrentColumns == RatingColumns \cup {"problems", "Unnamed: 8"}
\* the columns read_csv gives a numeric dtype
NumericColumns == CodeColumns \cup {"Unnamed: 8"}

StatusOf(code) == IF code \in Levels THEN Labels[code] ELSE NoValue

RatingRow(date, codes) ==
    [c \in RatingColumns |->
        CASE c = "date_valid" -> date
          [] c = "alpine_status" -> StatusOf(codes[1])
          [] c = "alpine_status_code" -> codes[1]
          [] c = "treeline_status" -> StatusOf(codes[2])
          [] c = "treeline_status_code" -> codes[2]
          [] c = "belowtree_status" -> StatusOf(codes[3])
          [] OTHER -> codes[3]]

CurrentRow(date, codes, problems) ==
    [c \in CurrentColumns |->
        CASE c = "problems" -> problems
          [] c = "Unnamed: 8" -> NaN
          [] OTHER -> RatingRow(date, codes)[c]]

(***************************************************************************)
(* The raw tables the notebook is run on.  Five dates carry every level    *)
(* once in each band of each table; NFree further dates carry rows drawn    *)
(* from small sets (placeholders, zero ratings, valid rows); one row may    *)
(* be a placeholder, as the scraper leaves for a date without a forecast.   *)
(***************************************************************************)
Rot(n) == (n % 5) + 1
NSlots == 5 + NFree
\* rows in date order: two level dates, the free dates, three level dates
IsFreeSlot(n) == n > 2 /\ n <= 2 + NFree
LevelOfSlot(n) == IF n <= 2 THEN n ELSE n - NFree

Placeholder == <<NaN, NaN, NaN>>

BaseCodes(t, l) ==
    CASE t = "current" -> <<l, l, l>>
      [] t = "plus1" -> <<l, Rot(l), Rot(Rot(l))>>
      [] OTHER -> <<Rot(l), Rot(Rot(l)), l>>

BaseProblems(l) == IF l % 2 = 1 THEN NoValue ELSE "Wind Slabs"

FreeCurrent == {<<Placeholder, NoValue>>, <<<<1, 0, 1>>, "Storm Slabs">>,
                <<<<2, 2, 5>>, NoValue>>, <<<<1, 1, 1>>, "Storm Slabs">>}
FreePlus1 == {Placeholder, <<0, 1, 1>>, <<2, 1, 5>>}
FreePlus2 == {Placeholder, <<1, 1, NaN>>, <<2, 2, 1>>}

Holes == {<<"none", 0>>} \cup ({"current", "plus1", "plus2"} \X Levels)
FreeChoices == [1..NFree -> FreeCurrent \X FreePlus1 \X FreePlus2]

CodesAt(t, n, hole, free) ==
    IF IsFreeSlot(n)
    THEN CASE t = "current" -> free[n - 2][1][1]
           [] t = "plus1" -> free[n - 2][2]
           [] OTHER -> free[n - 2][3]
    ELSE IF hole = <<t, LevelOfSlot(n)>> THEN Placeholder
    ELSE BaseCodes(t, LevelOfSlot(n))

ProblemsAt(n, hole, free) ==
    IF IsFreeSlot(n) THEN free[n - 2][1][2]
    ELSE IF hole = <<"current", LevelOfSlot(n)>> THEN NoValue
    ELSE BaseProblems(LevelOfSlot(n))

RawFiles(hole, free) ==
    [current |-> [columns |-> CurrentColumns,
                  rows |-> [n \in 1..NSlots |->
                      CurrentRow(n, CodesAt("current", n, hole, free),
                                 ProblemsAt(n, hole, free))]],
     plus1 |-> [columns |-> RatingColumns,
                rows |-> [n \in 1..NSlots |-> RatingRow(n, CodesAt("plus1", n, hole, free))]],
     plus2 |-> [columns |-> RatingColumns,
                rows |-> [n \in 1..NSlots |-> RatingRow(n, CodesAt("plus2", n, hole, free))]]]

RawInputs == {RawFiles(hole, free) : hole \in Holes, free \in FreeChoices}

(***************************************************************************)
(* Load Dataset (lines 82-84)                                              *)
(***************************************************************************)
LoadDataset ==
    /\ nbpc = "start"
    /\ df_raw_current' = csv_files.current
    /\ df_raw_current_plus1' = csv_files.plus1
    /\ df_raw_current_plus2' = csv_files.plus2
    /\ nbpc' = "loaded"
    /\ UNCHANGED <<csv_files, df_now_plus1, df_now_plus2, anomaly, scrapeVars>>

(***************************************************************************)
(* Clean Dataset (lines 93-113)                                            *)
(***************************************************************************)
\* df.replace(0.0, np.nan): every numeric cell equal to zero becomes NaN
replace_zero(df) ==
    [df EXCEPT !.rows = [n \in 1..Len(df.rows) |->
        [c \in df.columns |->
            IF c \in NumericColumns /\ df.rows[n][c] = 0 THEN NaN ELSE df.rows[n][c]]]]

\* df.dropna(subset=...): the rows with a value in every column of subset
dropna_alpine_only(df, subset) ==
    LET keep(row) == row["alpine_status_code"] # NaN
    IN  [df EXCEPT !.rows = SelectSeq(df.rows, keep)]
dropna(df, subset) ==
    LET keep(row) == \A c \in subset : row[c] # NaN
    IN  [df EXCEPT !.rows = SelectSeq(df.rows, keep)]

\* df.drop(columns=[col])
drop_column(df, col) ==
    [columns |-> df.columns \ {col},
     rows |-> [n \in 1..Len(df.rows) |-> [c \in df.columns \ {col} |-> df.rows[n][c]]]]

\* df[col].replace(np.nan, value) on a text column
fill_missing(df, col, value) ==
    [df EXCEPT !.rows = [n \in 1..Len(df.rows) |->
        [df.rows[n] EXCEPT ![col] = IF @ = NoValue THEN value ELSE @]]]

\* The cell works in place on df_raw_*: run once after the load, it may be run
\* again on the tables it has produced.  The filter loop (lines 100-102) is
\* done on all three tables before drop(columns=['Unnamed: 8']) (line 105),
\* which raises KeyError when the column is no longer there.
CleanDataset ==
    /\ nbpc \in {"loaded", "cleaned"}
    /\ LET filtered(df) == dropna(replace_zero(df), CodeColumns)
       IN  /\ df_raw_current_plus1' = filtered(df_raw_current_plus1)
           /\ df_raw_current_plus2' = filtered(df_raw_current_plus2)
           /\ IF "Unnamed: 8" \notin df_raw_current.columns
              THEN /\ df_raw_current' = filtered(df_raw_current)
                   /\ nbpc' = "KeyError"
              ELSE /\ df_raw_current' =
                          fill_missing(drop_column(filtered(df_raw_current), "Unnamed: 8"),
                                       "problems", "No Text")
                   /\ nbpc' = "cleaned"
    /\ UNCHANGED <<csv_files, df_now_plus1, df_now_plus2, anomaly, scrapeVars>>

(***************************************************************************)
(* Danger Rating Forecast Anomaly (lines 371-423)                          *)
(***************************************************************************)
\* pd.merge(left, right, on date_valid): inner join, _x is left, _y is right
RECURSIVE merge_from(_, _, _)
merge_from(left, right, n) ==
    IF n > Len(left.rows) THEN <<>>
    ELSE LET same(r) == r["date_valid"] = left.rows[n]["date_valid"]
             matches == SelectSeq(right.rows, same)
         IN  [m \in 1..Len(matches) |-> [x |-> left.rows[n], y |-> matches[m]]]
                 \o merge_from(left, right, n + 1)
merge(left, right) == merge_from(left, right, 1)

\* zero_matrix(): df[column][index] = 0.0; a cell is the fraction n/d of 100
ZeroCell == [n |-> 0, d |-> 1]
zero_matrix == [i \in Levels |-> [j \in Levels |-> ZeroCell]]

Bands == {"alpine", "treeline", "belowtree"}
Horizons == {1, 2}
CodeColumn(band) == CASE band = "alpine" -> "alpine_status_code"
                      [] band = "treeline" -> "treeline_status_code"
                      [] OTHER -> "belowtree_status_code"

\* the matrices whose level-5 column the loop sets to zero (lines 392, 401, 409)
ZeroAtFive_two_day_only(band, h) == h = 2
ZeroAtFive(band, h) == h = 2 \/ band = "belowtree"

\* len(df[(df.<band>_x == j) & (df.<band>_y == i)])
count_both_swapped(df, band, i, j) ==
    LET hit(m) == m.x[CodeColumn(band)] = i /\ m.y[CodeColumn(band)] = j
    IN  Len(SelectSeq(df, hit))
count_both(df, band, i, j) ==
    LET hit(m) == m.x[CodeColumn(band)] = j /\ m.y[CodeColumn(band)] = i
    IN  Len(SelectSeq(df, hit))
\* len(df[df.<band>_y == i])
count_reported(df, band, i) ==
    LET hit(m) == m.x[CodeColumn(band)] = i
    IN  Len(SelectSeq(df, hit))
count_level(df, band, i) ==
    LET hit(m) == m.y[CodeColumn(band)] = i
    IN  Len(SelectSeq(df, hit))

\* the pass for level i divides by zero
Stops(now1, now2, i) ==
    \E band \in Bands, h \in Horizons :
        /\ ~(i = 5 /\ ZeroAtFive(band, h))
        /\ count_level(IF h = 1 THEN now1 ELSE now2, band, i) = 0

\* the value the pass (i, j) stores in the matrix of (band, h)
tmp(df, band, h, i, j) ==
    IF i = 5 /\ ZeroAtFive(band, h) THEN ZeroCell
    ELSE [n |-> count_both(df, band, i, j), d |-> count_level(df, band, i)]

\* the level whose pass raises ZeroDivisionError (6 when every pass completes)
StopLevel(now1, now2) ==
    IF \A i \in Levels : ~Stops(now1, now2, i) THEN 6
    ELSE CHOOSE i \in Levels : Stops(now1, now2, i) /\ \A l \in 1..(i - 1) : ~Stops(now1, now2, l)

\* the six matrices after the loop has run up to, not including, level stop
Matrices(now1, now2, stop) ==
    [m \in Bands \X Horizons |->
        [i \in Levels |-> [j \in Levels |->
            IF i < stop
            THEN tmp(IF m[2] = 1 THEN now1 ELSE now2, m[1], m[2], i, j)
            ELSE zero_matrix[i][j]]]]

ForecastAnomaly ==
    /\ nbpc = "cleaned"
    /\ df_now_plus1' = merge(df_raw_current, df_raw_current_plus1)
    /\ df_now_plus2' = merge(df_raw_current, df_raw_current_plus2)
    /\ \E stop \in {StopLevel(df_now_plus1', df_now_plus2')} :
           /\ anomaly' = Matrices(df_now_plus1', df_now_plus2', stop)
           /\ nbpc' = IF stop = 6 THEN "anomaly_done" ELSE "ZeroDivisionError"
    /\ UNCHANGED <<csv_files, df_raw_current, df_raw_current_plus1,
                   df_raw_current_plus2, scrapeVars>>

ScrapeIdle ==
    /\ pc = "idle"
    /\ dates = <<>>
    /\ k = 0
    /\ page = NoPage
    /\ driver = "none"
    /\ launched = 0
    /\ queried = <<>>
    /\ current_conditions = <<>>
    /\ current_plus_1_conditions = <<>>
    /\ current_plus_2_conditions = <<>>
    /\ problem_conditions = <<>>
    /\ returned = <<>>

NbInit ==
    /\ nbpc = "start"
    /\ csv_files \in RawInputs
    /\ df_raw_current = <<>>
    /\ df_raw_current_plus1 = <<>>
    /\ df_raw_current_plus2 = <<>>
    /\ df_now_plus1 = <<>>
    /\ df_now_plus2 = <<>>
    /\ anomaly = <<>>
    /\ ScrapeIdle

NbNext == LoadDataset \/ CleanDataset \/ ForecastAnomaly

NbSpec == NbInit /\ [][NbNext]_vars

(***************************************************************************)
(* Properties of scrape().                                                 *)
(***************************************************************************)
Ended == pc \in {"done", "ValueError", "IndexError"}

\* the rows appended for the three horizons: 1 today, 2 tomorrow, 3 the day after
RowsOf(r) == CASE r = 1 -> current_conditions
               [] r = 2 -> current_plus_1_conditions
               [] OTHER -> current_plus_2_conditions

\* the nine texts the parse branch reads, in the order it reads them
ParsedPositions(pg) == {p \in 1..9 : p <= 3 \/ p - 3 <= Len(pg.forecast)}
TextAt(pg, p) == CASE p = 1 -> pg.alpine[1]
                   [] p = 2 -> pg.treeline[1]
                   [] p = 3 -> pg.belowtree[1]
                   [] OTHER -> pg.forecast[p - 3]
RowOfPos(p) == ((p - 1) \div 3) + 1
SlotOfPos(p) == ((p - 1) % 3) + 1

AnyLocatorEmpty(pg) ==
    Len(pg.alpine) = 0 \/ Len(pg.treeline) = 0 \/ Len(pg.belowtree) = 0 \/ Len(pg.forecast) = 0

IsWord(a) == a # SEP /\ ~IsDigit(a)
\* "<n> - <label>", n in 1..5
LevelChars == {"1", "2", "3", "4", "5"}
CodeFirst(t) == Len(t) = 3 /\ t[2] = SEP /\ t[1] \in LevelChars /\ IsWord(t[3])
\* "<label> - <n>", n in 1..5
LabelFirst(t) == Len(t) = 3 /\ t[2] = SEP /\ t[3] \in LevelChars /\ IsWord(t[1])
LevelOfChar(c) == CHOOSE n \in 1..5 : c = DigitChars[n + 1]

AllCodeFirst(pg) ==
    /\ ~AnyLocatorEmpty(pg)
    /\ Len(pg.forecast) >= 6
    /\ \A p \in 1..9 : CodeFirst(TextAt(pg, p))

\* C1: at every find_elements round the loaded page is the archive page of
\* the date being processed.
C1_QueriedPageIsDatePage ==
    \A n \in 1..Len(queried) : queried[n].page.url = queried[n].date

\* C3: a date whose page lacks the alpine, treeline, below-treeline or
\* forecast element gets the date-only placeholders and an empty problem
\* entry, raises nothing, is queried once, and the loop goes on; a date with
\* all four present never gets a placeholder.
C3_MissingGivesPlaceholder ==
    /\ Len(queried) <= Len(dates)
    /\ \A n \in 1..Len(queried) :
         /\ queried[n].date = dates[n]
         /\ AnyLocatorEmpty(queried[n].page) =>
              /\ Len(current_conditions) >= n /\ current_conditions[n] = <<dates[n]>>
              /\ Len(current_plus_1_conditions) >= n
              /\ current_plus_1_conditions[n] = <<dates[n] + 1>>
              /\ Len(current_plus_2_conditions) >= n
              /\ current_plus_2_conditions[n] = <<dates[n] + 2>>
              /\ Len(problem_conditions) >= n /\ problem_conditions[n] = <<>>
              /\ pc \in {"loop", "done"} \/ n < Len(queried)
              /\ k >= n
         /\ ~AnyLocatorEmpty(queried[n].page) =>
              \A r \in 1..3 : Len(RowsOf(r)) >= n => Len(RowsOf(r)[n]) # 1

C3_Witness ==
    /\ pc = "done"
    /\ \E n \in 1..Len(queried) : n < Len(dates) /\ AnyLocatorEmpty(queried[n].page)
    /\ \E n \in 1..Len(queried) : Len(queried[n].page.forecast) = 0
                                    /\ Len(queried[n].page.alpine) > 0

\* C4: the browser is started once and has been quit whenever the run has
\* ended, whichever way it ended.
C4_BrowserReleasedAtEnd ==
    Ended => launched = 1 /\ driver = "quit"

\* C5: after k dates each output list has k entries, on return each has
\* len(dates) entries, and entry n starts with dates[n], dates[n] + 1 day and
\* dates[n] + 2 days in the today, +1 and +2 lists.
C5_ListsAligned ==
    pc \in {"loop", "done"} =>
        /\ Len(current_conditions) = k
        /\ Len(current_plus_1_conditions) = k
        /\ Len(current_plus_2_conditions) = k
        /\ Len(problem_conditions) = k
        /\ \A n \in 1..k :
             /\ current_conditions[n][1] = dates[n]
             /\ current_plus_1_conditions[n][1] = dates[n] + 1
             /\ current_plus_2_conditions[n][1] = dates[n] + 2
        /\ pc = "done" =>
             /\ k = Len(dates)
             /\ Len(returned) = 4
             /\ \A r \in 1..4 : Len(returned[r]) = Len(dates)
             /\ \A n \in 1..Len(dates) :
                  /\ returned[1][n][1] = dates[n]
                  /\ returned[2][n][1] = dates[n] + 1
                  /\ returned[3][n][1] = dates[n] + 2

C5_Witness ==
    /\ pc = "done"
    /\ Len(dates) >= 2
    /\ \E n \in 1..Len(dates) : Len(returned[1][n]) = 1
    /\ \E n \in 1..Len(dates) : Len(returned[1][n]) = 7

\* the row expected from the texts at positions p, p+1, p+2 of a page
ExpectedRow(date, pg, p) ==
    <<date, <<TextAt(pg, p)[3]>>, LevelOfChar(TextAt(pg, p)[1]),
            <<TextAt(pg, p + 1)[3]>>, LevelOfChar(TextAt(pg, p + 1)[1]),
            <<TextAt(pg, p + 2)[3]>>, LevelOfChar(TextAt(pg, p + 2)[1])>>

AllLow(pg) == AllCodeFirst(pg) /\ \A p \in 1..9 : TextAt(pg, p) = <<"1", SEP, "Low">>

C7_LabelFirstStored ==
    \A n \in 1..Len(queried) :
        ~AnyLocatorEmpty(queried[n].page) =>
            \A p \in ParsedPositions(queried[n].page) :
                LET t == TextAt(queried[n].page, p)
                    rows == RowsOf(RowOfPos(p))
                IN  LabelFirst(t) =>
                        /\ Len(rows) >= n
                        /\ rows[n][2 * SlotOfPos(p)] = <<t[1]>>
                        /\ rows[n][2 * SlotOfPos(p) + 1] = LevelOfChar(t[3])

\* C7 amended: a parsed text "<n> - <label>", n in 1..5, is stored as
\* label n: the label in the status field and the integer in the status-code
\* field; a page whose parsed texts all have this form yields all three rows.
C7_CodeFirstStored ==
    \A n \in 1..Len(queried) :
        ~AnyLocatorEmpty(queried[n].page) =>
            /\ AllCodeFirst(queried[n].page) => \A r \in 1..3 : Len(RowsOf(r)) >= n
            /\ \A p \in ParsedPositions(queried[n].page) :
                 (/\ Len(RowsOf(RowOfPos(p))) >= n
                  /\ CodeFirst(TextAt(queried[n].page, p)))
                 => /\ RowsOf(RowOfPos(p))[n][2 * SlotOfPos(p)]
                          = <<TextAt(queried[n].page, p)[3]>>
                    /\ RowsOf(RowOfPos(p))[n][2 * SlotOfPos(p) + 1]
                          = LevelOfChar(TextAt(queried[n].page, p)[1])

C7_Witness ==
    /\ pc = "loop"
    /\ k = 1
    /\ AllCodeFirst(queried[1].page)
    /\ TextAt(queried[1].page, 1) = <<"2", SEP, "Moderate">>

\* a text outside the two-part pattern, the integer taken where the code reads it
Malformed(t) ==
    \/ Len(split(t)) # 2
    \/ ~IsIntLiteral(split(t)[1])
    \/ int(split(t)[1]) \notin 1..5

NonIntegerLead(t) == ~IsIntLiteral(split(t)[1])

\* C8 as stated: a text with no separator, more than one separator, a
\* non-integer code or a code outside 1..5 stops the run with a parsing
\* failure, nothing is returned and no record built from it is appended.
C8_MalformedStopsRun ==
    \A n \in 1..Len(queried) :
        ~AnyLocatorEmpty(queried[n].page) =>
            \A p \in ParsedPositions(queried[n].page) :
                Malformed(TextAt(queried[n].page, p)) =>
                    /\ n = Len(queried)
                    /\ pc = "ValueError"
                    /\ returned = <<>>
                    /\ Len(RowsOf(RowOfPos(p))) < n

\* C8 amended: a parsed text whose part before the first separator (the whole
\* text when it has none) is not an integer stops the run with a ValueError,
\* nothing is returned and no record built from it is appended; the run is
\* stopped by a ValueError in no other case.
C8_NonIntegerStopsRun ==
    /\ \A n \in 1..Len(queried) :
         ~AnyLocatorEmpty(queried[n].page) =>
             \A p \in ParsedPositions(queried[n].page) :
                 NonIntegerLead(TextAt(queried[n].page, p)) =>
                     /\ n = Len(queried)
                     /\ pc = "ValueError"
                     /\ returned = <<>>
                     /\ Len(RowsOf(RowOfPos(p))) < n
    /\ pc = "ValueError" =>
         /\ Len(queried) > 0
         /\ ~AnyLocatorEmpty(queried[Len(queried)].page)
         /\ \E p \in ParsedPositions(queried[Len(queried)].page) :
                NonIntegerLead(TextAt(queried[Len(queried)].page, p))

C8_Witness ==
    /\ pc = "ValueError"
    /\ Len(queried) = 2
    /\ Len(current_conditions) = 2
    /\ Len(current_plus_1_conditions) = 1

(***************************************************************************)
(* Properties of the notebook.                                             *)
(***************************************************************************)
\* the input rows with all three ratings present and non-zero, in order
RatedRows(t) ==
    LET rated(row) == \A c \in CodeColumns : row[c] # NaN /\ row[c] # 0
    IN  SelectSeq(csv_files[t].rows, rated)

WithSentinel(row) == [row EXCEPT !["problems"] = IF @ = NoValue THEN "No Text" ELSE @]

\* C9 as stated: each cleaned table holds exactly the input rows whose three
\* ratings are present and non-zero, in input order, with no field changed
\* but a missing day-of problem text, which becomes 'No Text'.
C9_PureFilter ==
    nbpc = "cleaned" =>
        /\ df_raw_current_plus1.rows = RatedRows("plus1")
        /\ df_raw_current_plus2.rows = RatedRows("plus2")
        /\ Len(df_raw_current.rows) = Len(RatedRows("current"))
        /\ \A n \in 1..Len(df_raw_current.rows) :
               df_raw_current.rows[n] = WithSentinel(RatedRows("current")[n])

\* C9 amended: as stated, except that the day-of table also loses its extra
\* column 'Unnamed: 8'; every other field of a kept row is unchanged.
C9_FilterAndDropColumn ==
    nbpc = "cleaned" =>
        /\ df_raw_current_plus1.rows = RatedRows("plus1")
        /\ df_raw_current_plus1.columns = csv_files.plus1.columns
        /\ df_raw_current_plus2.rows = RatedRows("plus2")
        /\ df_raw_current_plus2.columns = csv_files.plus2.columns
        /\ df_raw_current.columns = csv_files.current.columns \ {"Unnamed: 8"}
        /\ Len(df_raw_current.rows) = Len(RatedRows("current"))
        /\ \A n \in 1..Len(df_raw_current.rows) :
               /\ DOMAIN df_raw_current.rows[n] = df_raw_current.columns
               /\ \A c \in df_raw_current.columns :
                      df_raw_current.rows[n][c] = WithSentinel(RatedRows("current")[n])[c]

C9_Witness ==
    /\ nbpc = "cleaned"
    /\ Len(df_raw_current.rows) < Len(csv_files.current.rows)
    /\ Len(df_raw_current_plus1.rows) < Len(csv_files.plus1.rows)
    /\ Len(df_raw_current_plus2.rows) < Len(csv_files.plus2.rows)
    /\ \E n \in 1..Len(df_raw_current.rows) : df_raw_current.rows[n]["problems"] = "No Text"
    /\ \E n \in 1..Len(df_raw_current.rows) : df_raw_current.rows[n]["problems"] = "Storm Slabs"

\* the cleaned table of a horizon (0 is the day-of table)
Cleaned(h) == CASE h = 0 -> df_raw_current
                [] h = 1 -> df_raw_current_plus1
                [] OTHER -> df_raw_current_plus2
\* the dates present in the day-of table and in the forecast table of horizon
\* h, each as the pair of its row numbers in the two cleaned tables
MergedDays(h) ==
    {p \in (1..Len(Cleaned(0).rows)) \X (1..Len(Cleaned(h).rows)) :
        Cleaned(0).rows[p[1]]["date_valid"] = Cleaned(h).rows[p[2]]["date_valid"]}
DaysOf == [h \in Horizons |-> MergedDays(h)]
Reported(band, p) == Cleaned(0).rows[p[1]][CodeColumn(band)]
Forecast(band, h, p) == Cleaned(h).rows[p[2]][CodeColumn(band)]
\* counts over days, the merged days of horizon h
NBoth(days, band, h, r, f) ==
    Cardinality({p \in days : Reported(band, p) = r /\ Forecast(band, h, p) = f})
NReported(days, band, r) == Cardinality({p \in days : Reported(band, p) = r})
NForecast(days, band, h, f) == Cardinality({p \in days : Forecast(band, h, p) = f})

\* the cell of the matrix of (band, h) in the column of forecast level f and
\* the row of reported level r
CellAt(band, h, f, r) == anomaly[<<band, h>>][f][r]
\* the cell is 100 * num / den
CellIs(cell, num, den) == cell.d > 0 /\ cell.n * den = num * cell.d

HardZero(band, h, f) == f = 5 /\ (h = 2 \/ band = "belowtree")
\* the pass for level l divides by no zero
LevelHasDays(md, l) ==
    \A band \in Bands, h \in Horizons :
        HardZero(band, h, l) \/ NForecast(md[h], band, h, l) > 0
\* the first level whose pass divides by zero (6 when there is none)
FirstEmptyLevel(md) ==
    IF \A l \in Levels : LevelHasDays(md, l) THEN 6
    ELSE CHOOSE l \in Levels : ~LevelHasDays(md, l) /\ \A m \in 1..(l - 1) : LevelHasDays(md, m)

AnomalyRan == nbpc \in {"anomaly_done", "ZeroDivisionError"}

SumIs100(c) ==
    \A P \in {c[1].d * c[2].d * c[3].d * c[4].d * c[5].d} :
        c[1].n * (P \div c[1].d) + c[2].n * (P \div c[2].d) + c[3].n * (P \div c[3].d)
            + c[4].n * (P \div c[4].d) + c[5].n * (P \div c[5].d) = P
SumIs0(c) == \A j \in Levels : c[j].n = 0

C11_NoDivisionError ==
    AnomalyRan =>
        \A md \in {DaysOf} :
            (\E band \in Bands, h \in Horizons, l \in Levels :
                 NReported(md[h], band, l) = 0 \/ NForecast(md[h], band, h, l) = 0) =>
                /\ nbpc = "anomaly_done"
                /\ \A band \in Bands, h \in Horizons, i \in Levels, j \in Levels :
                       CellAt(band, h, i, j).d > 0

\* the state C11 is refuted in: a level with no merged day of that reported
\* rating and none of that forecast rating, and the loop stopped by the division
C11_DivisionByZeroReached ==
    /\ nbpc = "ZeroDivisionError"
    /\ \E band \in Bands, h \in Horizons, l \in Levels :
           /\ ~HardZero(band, h, l)
           /\ NReported(MergedDays(h), band, l) = 0
           /\ NForecast(MergedDays(h), band, h, l) = 0

\* the rows of the three tables
TableRows == <<df_raw_current.rows, df_raw_current_plus1.rows, df_raw_current_plus2.rows>>

\* C12 as stated: the cleaning step applied to tables the cleaning step has
\* produced completes without error and leaves the rows of every table
\* unchanged.
C12_CleaningIdempotent ==
    [][(nbpc = "cleaned" /\ CleanDataset) =>
          (nbpc' = "cleaned" /\ TableRows' = TableRows)]_vars

\* what the second cleaning does do: the row filter changes no row, and the
\* step ends in KeyError at the drop of the column 'Unnamed: 8'
C12_SecondCleaningKeepsRows ==
    [][(nbpc = "cleaned" /\ CleanDataset) =>
          (nbpc' = "KeyError" /\ TableRows' = TableRows)]_vars

\* the three band elements are there and the forecast block has between one
\* and five values
ShortForecast(pg) ==
    /\ pg.alpine # <<>> /\ pg.treeline # <<>> /\ pg.belowtree # <<>>
    /\ Len(pg.forecast) \in 1..5

\* C13 as stated: the pass over a page whose forecast block has between one
\* and five values raises no exception, appends the date-only placeholder
\* rows for that date and goes on to the next date.
C13_ShortForecastGivesPlaceholder ==
    \A n \in 1..Len(queried) :
        ShortForecast(queried[n].page) =>
            /\ pc \notin {"IndexError", "ValueError"}
            /\ Len(current_conditions) >= n
            /\ Len(current_plus_1_conditions) >= n
            /\ Len(current_plus_2_conditions) >= n
            /\ Len(problem_conditions) >= n
            /\ current_conditions[n] = <<queried[n].date>>
            /\ current_plus_1_conditions[n] = <<queried[n].date + 1>>
            /\ current_plus_2_conditions[n] = <<queried[n].date + 2>>
            /\ problem_conditions[n] = <<>>

\* what the pass does do: a short forecast block ends the run in an exception
\* at the first value that is not there or does not parse, after the day-of
\* row (and, with three values or more, the 1-day row) has been appended
C13_ShortForecastRaises ==
    \A n \in 1..Len(queried) :
        ShortForecast(queried[n].page) =>
            /\ n = Len(queried)
            /\ pc \in {"IndexError", "ValueError"}
            /\ Len(current_conditions) = n
            /\ Len(current_conditions[n]) = 7
            /\ Len(current_plus_2_conditions) = n - 1
            /\ Len(problem_conditions) = n - 1

\* the level-5 cells of the matrix of (band, h) are the shares computed from
\* the merged days md
LevelFiveFromData(md, band, h) ==
    \A j \in Levels :
        CellIs(CellAt(band, h, 5, j), NBoth(md[h], band, h, j, 5),
               NForecast(md[h], band, h, 5))
LevelFiveAllZero(band, h) == \A j \in Levels : CellAt(band, h, 5, j).n = 0

\* C14 as stated: in each of the three 1-day-out matrices (alpine, treeline,
\* below-treeline) the level-5 cells are computed from the merged data, and
\* are not all zero when at least one merged day has level 5; only in the
\* three 2-day-out matrices are they zero whatever the data.
C14_ZeroOnlyTwoDaysOut ==
    nbpc = "anomaly_done" =>
        \A md \in {DaysOf} :
            /\ \A band \in Bands : LevelFiveAllZero(band, 2)
            /\ \A band \in Bands :
                   NForecast(md[1], band, 1, 5) > 0 =>
                       /\ LevelFiveFromData(md, band, 1)
                       /\ ~LevelFiveAllZero(band, 1)

\* C14 amended: the level-5 cells are zero whatever the data in the three
\* 2-day-out matrices and in the 1-day-out below-treeline matrix; in the
\* 1-day-out alpine and treeline matrices, once the loop has stored them,
\* they are the shares computed from the merged data and are not all zero.
C14_ZeroTwoDaysOutAndBelowTreeline ==
    AnomalyRan =>
        \A md \in {DaysOf} :
            /\ \A band \in Bands : LevelFiveAllZero(band, 2)
            /\ LevelFiveAllZero("belowtree", 1)
            /\ nbpc = "anomaly_done" =>
                   \A band \in {"alpine", "treeline"} :
                       /\ NForecast(md[1], band, 1, 5) > 0
                       /\ LevelFiveFromData(md, band, 1)
                       /\ ~LevelFiveAllZero(band, 1)

\* a completed run whose merged days have a below-treeline day reported 5 and
\* forecast 5 one day out, and a 2-day-out alpine forecast of 5
C14_Witness ==
    /\ nbpc = "anomaly_done"
    /\ NBoth(MergedDays(1), "belowtree", 1, 5, 5) > 0
    /\ NForecast(MergedDays(2), "alpine", 2, 5) > 0
    /\ \E j \in Levels : CellAt("alpine", 1, 5, j).n > 0

====
